---- MODULE Spec2Model ----
(***************************************************************************)
(* State-machine model of src/player/player.rs: the SpotifyPlayer command  *)
(* actor (handle / create_player / start), the session establisher         *)
(* (create_session), the token fetcher (get_access_token_and_expiry_time)  *)
(* and the event bridge (player_setup_delegate).                           *)
(***************************************************************************)
EXTENDS Integers, Sequences, FiniteSets, TLC

(* ---------------- bounds of the model ---------------- *)
MaxCmds == 3      \* commands sent on the channel during a run
MaxQueue == 2     \* commands waiting in the channel at one time
MaxEvents == 2    \* player events emitted during a run

(* ---------------- program constants ---------------- *)
MAX_VOLUME == 65535

NonePort == [some |-> FALSE, port |-> 0]
SomePort(p) == [some |-> TRUE, port |-> p]

KNOWN_AP_PORTS == << NonePort, SomePort(80), SomePort(443), SomePort(4070) >>

(* ---------------- input domains ---------------- *)
Usernames == {"alice"}                    \* usernames given in login commands
CanonicalNames == {"alice", "al1c3"}      \* what Session::username() may answer
Secrets == {"tok123"}
AccessTokens == {"at1"}
Volumes == {0, 100}              \* SetVolume fraction, in hundredths
Positions == {7}
Tracks == {1}

DefaultSettings == [bitrate |-> 160, backend |-> "PulseAudio", ap_port |-> NonePort]
SettingsSet == {DefaultSettings,
                [bitrate |-> 320, backend |-> "Alsa", ap_port |-> SomePort(443)]}

Cmd(t, u, s, n) == [type |-> t, username |-> u, secret |-> s, num |-> n, seq |-> 0]
NoCmd == Cmd("-", "", "", 0)

Command ==
       {Cmd("PlayerSetVolume", "", "", v) : v \in Volumes}
  \cup {Cmd(t, "", "", 0) : t \in {"PlayerResume", "PlayerPause", "PlayerStop"}}
  \cup {Cmd("PlayerSeek", "", "", p) : p \in Positions}
  \cup {Cmd("PlayerLoad", "", "", t) : t \in Tracks}
  \cup {Cmd(t, "", "", 0) : t \in {"RefreshToken", "Logout", "ReloadSettings"}}
  \cup {Cmd("PasswordLogin", u, s, 0) : u \in Usernames, s \in Secrets}
  \cup {Cmd("TokenLogin", u, s, 0) : u \in Usernames, s \in Secrets}

SpotifyError == {"LoginFailed", "TokenFailed", "PlayerNotReady"}

NoSession == [id |-> 0]
NoPlayer == [id |-> 0, session |-> 0, bitrate |-> 0, mixer |-> 0]
NoMixer == [id |-> 0, volume |-> 0]
NoFwd == [op |-> "-", target |-> 0, arg |-> 0]
Call(name, a, b, c, n) == [call |-> name, a |-> a, b |-> b, c |-> c, n |-> n]

PlayerEvent == {[kind |-> "EndOfTrack", position_ms |-> 0],
                [kind |-> "Stopped", position_ms |-> 0],
                [kind |-> "Playing", position_ms |-> 7],
                [kind |-> "Paused", position_ms |-> 7]}
NoEvent == [kind |-> "-", position_ms |-> 0, n |-> 0]

\* identities of live objects: the smallest one no live reference uses
Fresh(used) == CHOOSE i \in 1..(Cardinality(used) + 1) :
                 i \notin used /\ \A j \in 1..(i - 1) : j \in used

VARIABLES
  settings,    \* SpotifyPlayer.settings
  session,     \* SpotifyPlayer.session (NoSession = None)
  player,      \* SpotifyPlayer.player  (NoPlayer = None)
  mixer,       \* SpotifyPlayer.mixer   (NoMixer = None)
  queue,       \* the UnboundedReceiver<Command>: commands sent, not yet taken
  closed,      \* every sender of the channel has been dropped
  sent,        \* number of commands sent so far
  started,     \* arrival numbers of the commands taken from the channel, in order
  pc,          \* position of the run loop: idle, connect, token, stopped
  cur,         \* the command whose handler is suspended (NoCmd when idle)
  portIdx,     \* create_session: index of the candidate being tried
  attempts,    \* the Session::connect calls made for the latest command taken
  newSession,  \* PasswordLogin: new_session while the token fetch is awaited
  last,        \* outcome of the most recently completed command
  bridges,     \* the running player_setup_delegate tasks, each with its channel
  emitted,     \* number of player events emitted so far
  delivered    \* the most recent event taken by a bridge, the calls it made, and the
               \* Player the Actor held at that moment

vars == << settings, session, player, mixer, queue, closed, sent, started, pc,
           cur, portIdx, attempts, newSession, last, bridges, emitted, delivered >>

actorState == << settings, session, player, mixer >>


(* ---------------- pure helpers ---------------- *)

\* Rust's saturating `as u16` cast of a non-NaN float
AsU16(x) == IF x < 0 THEN 0 ELSE IF x > 65535 THEN 65535 ELSE x

\* (mutant) the fraction is cast without being scaled to the mixer's range
ScaleVolumeUnscaled(v) == AsU16(v \div 100)

\* (VolumeCtrl::MAX_VOLUME as f64 * volume) as u16, volume given in hundredths
ScaleVolume(v) == AsU16((MAX_VOLUME * v) \div 100)

\* (mutant) the newest command of the channel is taken first
NextCommandNewest(q) == q[Len(q)]

\* StreamExt::for_each takes the oldest command of the channel
NextCommand(q) == Head(q)

\* (mutant) a PlayerNotReady failure is dropped instead of reported
ReportSilentNotReady(res) ==
  IF res \in {"Ok", "PlayerNotReady"} THEN << >> ELSE << Call("report_error", res, "", "", 0) >>

\* start(): Err(err) => delegate.report_error(err), Ok(_) => {}
Report(res) == IF res = "Ok" THEN << >> ELSE << Call("report_error", res, "", "", 0) >>

\* (mutant) the event stream of a dropped Player stays open
DropPlayerKeepsStream(bs, p) == bs

\* dropping a Player ends its event stream: the sender side of its channel closes
DropPlayer(bs, p) ==
  {IF b.player = p.id /\ p # NoPlayer THEN [b EXCEPT !.open = FALSE] ELSE b : b \in bs}

\* tokio::task::spawn_local(player_setup_delegate(channel, delegate))
SpawnBridge(bs, p) == bs \cup {[player |-> p.id, chan |-> << >>, open |-> TRUE]}

\* (mutant) create_player opens a new mixer for every Player
MixerAfterCreateAlwaysNew(m, p) == [id |-> Fresh({m.id} \ {0}), volume |-> MAX_VOLUME]

\* create_player: the mixer is created on first use, at full volume
MixerAfterCreate(m, p) ==
  IF m = NoMixer THEN [id |-> Fresh({p.mixer} \ {0}), volume |-> MAX_VOLUME] ELSE m

\* create_player: the Player built for a session under the current settings
NewPlayer(s, st, m, p, bs) ==
  [id |-> Fresh({b.player : b \in bs} \cup ({p.id} \ {0})), session |-> s.id,
   bitrate |-> st.bitrate, mixer |-> MixerAfterCreate(m, p).id]

\* Session::connect succeeded: a new Session, distinct from those still referenced
NewSession(s, p) == [id |-> Fresh({s.id, p.session} \ {0})]

\* (mutant) every attempt goes to the first candidate
CandidatePortFirst(ap_port, idx) == IF ap_port.some THEN ap_port ELSE KNOWN_AP_PORTS[1]

\* the candidate a Session::connect attempt of create_session goes to
CandidatePort(ap_port, idx) == IF ap_port.some THEN ap_port ELSE KNOWN_AP_PORTS[idx]

\* (mutant) an authentication failure is retried on the next candidate like an I/O failure
AfterConnectErrorRetryAll(ap_port, idx, outcome) ==
  IF ap_port.some THEN "fail"
  ELSE IF idx < Len(KNOWN_AP_PORTS) THEN "next" ELSE "fail"

\* (mutant) a fixed endpoint is tried again after an I/O failure
AfterConnectErrorFixedRetries(ap_port, idx, outcome) ==
  IF outcome = "AuthenticationError" THEN "fail"
  ELSE IF idx < Len(KNOWN_AP_PORTS) THEN "next" ELSE "fail"

\* create_session, after a failed attempt: "next" (try the next candidate) or "fail"
AfterConnectError(ap_port, idx, outcome) ==
  IF ap_port.some THEN "fail"
  ELSE IF outcome = "AuthenticationError" THEN "fail"
  ELSE IF idx < Len(KNOWN_AP_PORTS) THEN "next" ELSE "fail"

\* (mutant) the bridge takes no notice of PlayerEvent::Stopped
BridgeCallsStoppedIgnored(e) ==
  IF e.kind = "EndOfTrack" THEN << Call("end_of_track_reached", "", "", "", 0) >>
  ELSE IF e.kind = "Playing" THEN << Call("notify_playback_state", "", "", "", e.position_ms) >>
  ELSE << >>

\* the event bridge's mapping of one player event to Delegate calls
BridgeCalls(e) ==
  IF e.kind \in {"EndOfTrack", "Stopped"} THEN << Call("end_of_track_reached", "", "", "", 0) >>
  ELSE IF e.kind = "Playing" THEN << Call("notify_playback_state", "", "", "", e.position_ms) >>
  ELSE << >>

(* ---------------- initial state: SpotifyPlayer::new ---------------- *)
Init ==
  /\ settings \in SettingsSet
  /\ session = NoSession
  /\ player = NoPlayer
  /\ mixer = NoMixer
  /\ queue = << >>
  /\ closed = FALSE
  /\ sent = 0
  /\ started = << >>
  /\ pc = "idle"
  /\ cur = NoCmd
  /\ portIdx = 1
  /\ attempts = << >>
  /\ newSession = NoSession
  /\ last = [cmd |-> NoCmd, result |-> "-", calls |-> << >>, fwd |-> NoFwd]
  /\ bridges = {}
  /\ emitted = 0
  /\ delivered = [player |-> 0, event |-> NoEvent, calls |-> << >>, current |-> 0]

(* ---------------- the environment: producers of the channel ---------------- *)
Send(c) ==
  /\ ~closed
  /\ sent < MaxCmds
  /\ Len(queue) < MaxQueue
  /\ queue' = Append(queue, [c EXCEPT !.seq = sent + 1])
  /\ sent' = sent + 1
  /\ UNCHANGED << settings, session, player, mixer, closed, started, pc, cur, portIdx,
                  attempts, newSession, last, bridges, emitted, delivered >>

Close ==
  /\ ~closed
  /\ closed' = TRUE
  /\ UNCHANGED << settings, session, player, mixer, queue, sent, started, pc, cur, portIdx,
                  attempts, newSession, last, bridges, emitted, delivered >>

(* ---------------- the run loop and the handlers ---------------- *)

\* the run loop is waiting on the channel and a command is there
Ready(t) == pc = "idle" /\ queue # << >> /\ NextCommand(queue).type = t

\* the command is taken from the channel
Take(c) ==
  /\ queue' = SelectSeq(queue, LAMBDA x : x # c)
  /\ started' = Append(started, c.seq)
  /\ attempts' = << >>

\* (mutant) the run loop returns at the first command that fails
AfterHandleStopsOnError(res) == IF res = "Ok" THEN "idle" ELSE "stopped"

\* start(): whatever handle() returned, for_each goes back to polling the channel
AfterHandle(res) == "idle"

\* handle() has returned res after making `calls` on the Delegate; start() reports
Finish(c, res, calls, fwd) ==
  /\ pc' = AfterHandle(res)
  /\ cur' = NoCmd
  /\ portIdx' = 1
  /\ last' = [cmd |-> c, result |-> res, calls |-> calls \o Report(res), fwd |-> fwd]

\* handle() suspends at an await
Suspend(c, at) ==
  /\ pc' = at
  /\ cur' = c
  /\ UNCHANGED << last, portIdx >>

\* (mutant) SetVolume is refused while there is no mixer
SetVolumeResultNeedsMixer(m) == IF m = NoMixer THEN "PlayerNotReady" ELSE "Ok"

\* PlayerSetVolume returns Ok(()) whether or not there is a mixer
SetVolumeResult(m) == "Ok"

HandleSetVolume ==
  /\ Ready("PlayerSetVolume")
  /\ LET c == NextCommand(queue) IN
       /\ Take(c)
       /\ mixer' = IF mixer # NoMixer THEN [mixer EXCEPT !.volume = ScaleVolume(c.num)]
                                      ELSE mixer
       /\ Finish(c, SetVolumeResult(mixer), << >>, NoFwd)
  /\ UNCHANGED << settings, session, player, closed, sent, newSession,
                  bridges, emitted, delivered >>

\* Resume, Pause, Stop, Seek, Load: forwarded to the Player if there is one
Transport(t, op) ==
  /\ Ready(t)
  /\ LET c == NextCommand(queue) IN
       /\ Take(c)
       /\ IF player = NoPlayer
             THEN Finish(c, "PlayerNotReady", << >>, NoFwd)
             ELSE Finish(c, "Ok", << >>, [op |-> op, target |-> player.id, arg |-> c.num])
  /\ UNCHANGED << settings, session, player, mixer, closed, sent,
                  newSession, bridges, emitted, delivered >>

HandleResume == Transport("PlayerResume", "play")
HandlePause == Transport("PlayerPause", "pause")
HandleStop == Transport("PlayerStop", "stop")
HandleSeek == Transport("PlayerSeek", "seek")
HandleLoad == Transport("PlayerLoad", "load")

HandleRefreshToken ==
  /\ Ready("RefreshToken")
  /\ LET c == NextCommand(queue) IN
       /\ Take(c)
       /\ IF session = NoSession
             THEN Finish(c, "PlayerNotReady", << >>, NoFwd)
             ELSE Suspend(c, "token")
  /\ UNCHANGED << settings, session, player, mixer, closed, sent,
                  newSession, bridges, emitted, delivered >>

\* (mutant) Logout forgets to discard the Player
LogoutKeepsPlayer(p) == p

\* what Logout leaves in self.player
LogoutPlayer(p) == NoPlayer

HandleLogout ==
  /\ Ready("Logout")
  /\ LET c == NextCommand(queue) IN
       /\ Take(c)
       /\ IF session = NoSession
             THEN /\ Finish(c, "PlayerNotReady", << >>, NoFwd)
                  /\ UNCHANGED << session, player, bridges >>
             ELSE /\ session' = NoSession
                  /\ player' = LogoutPlayer(player)
                  /\ bridges' = IF player' = player THEN bridges ELSE DropPlayer(bridges, player)
                  /\ Finish(c, "Ok", << >>, [op |-> "shutdown", target |-> session.id, arg |-> 0])
  /\ UNCHANGED << settings, mixer, closed, sent, newSession,
                  emitted, delivered >>

\* PasswordLogin and TokenLogin start with create_session(credentials, settings.ap_port)
BeginLogin(t) ==
  /\ Ready(t)
  /\ LET c == NextCommand(queue) IN
       /\ Take(c)
       /\ Suspend(c, "connect")
  /\ UNCHANGED << settings, session, player, mixer, closed, sent, newSession,
                  bridges, emitted, delivered >>

HandlePasswordLogin == BeginLogin("PasswordLogin")
HandleTokenLogin == BeginLogin("TokenLogin")

\* create_player + spawn_local + player.replace + session.replace
Install(s) ==
  /\ mixer' = MixerAfterCreate(mixer, player)
  /\ player' = NewPlayer(s, settings, mixer, player, bridges)
  /\ bridges' = SpawnBridge(DropPlayer(bridges, player), player')
  /\ session' = s

\* new_session.username(): the canonical username the server gave at connect
SessionUsername(att) == att[Len(att)].username

\* (mutant) the username of the command is handed on instead of the session's
TokenLoginUsernameGiven(c, att) == c.username

\* the username TokenLogin hands to token_login_successful
TokenLoginUsername(c, att) == SessionUsername(att)

\* (mutant) a login that fails at create_session clears the session held
SessionAfterLoginFailedCleared(old) == NoSession

\* create_session(..).await? returns before any field is assigned: self.session stays
SessionAfterLoginFailed(old) == old

\* a Session::connect of create_session returns
ConnectReturns(outcome, u) ==
  /\ pc = "connect"
  /\ attempts' = Append(attempts, [port |-> CandidatePort(settings.ap_port, portIdx),
                                   outcome |-> outcome, username |-> u])
  /\ IF outcome = "Ok"
        THEN LET s == NewSession(session, player) IN
             IF cur.type = "PasswordLogin"
                THEN /\ newSession' = s
                     /\ pc' = "token"
                     /\ UNCHANGED << cur, last, session, player, mixer, bridges, portIdx >>
                ELSE /\ Install(s)
                     /\ Finish(cur, "Ok",
                               << Call("token_login_successful",
                                       TokenLoginUsername(cur, attempts'), cur.secret, "", 0) >>,
                               NoFwd)
                     /\ UNCHANGED newSession
        ELSE /\ IF AfterConnectError(settings.ap_port, portIdx, outcome) = "next"
                   THEN /\ portIdx' = portIdx + 1
                        /\ UNCHANGED << pc, cur, last >>
                   ELSE Finish(cur, "LoginFailed", << >>, NoFwd)
             /\ session' = SessionAfterLoginFailed(session)
             /\ UNCHANGED << player, mixer, bridges, newSession >>
  /\ UNCHANGED << settings, queue, closed, sent, started, emitted, delivered >>

ConnectOk == \E u \in CanonicalNames : ConnectReturns("Ok", u)
ConnectIoError == ConnectReturns("IoError", "")
ConnectAuthError == ConnectReturns("AuthenticationError", "")

\* (mutant) the new session is installed before the token fetch is checked
SessionAfterTokenFailedInstall(old, new) == new

\* PasswordLogin when its token fetch has failed: what becomes of self.session
SessionAfterTokenFailed(old, new) == old

\* (mutant) a failed token fetch is given the kind of a failed login
TokenFetchErrorAsLogin(e) == "LoginFailed"

\* get_access_token_and_expiry_time: map_err(|e| SpotifyError::TokenFailed)
TokenFetchError(e) == "TokenFailed"

\* keymaster::get_token returns (RefreshToken or PasswordLogin is waiting for it)
TokenReturns(ok, tok) ==
  /\ pc = "token"
  /\ IF cur.type = "RefreshToken"
        THEN /\ IF ok THEN Finish(cur, "Ok", << Call("refresh_successful", tok, "", "", 0) >>, NoFwd)
                      ELSE Finish(cur, TokenFetchError("MercuryError"), << >>, NoFwd)
             /\ UNCHANGED << session, player, mixer, bridges, newSession >>
        ELSE /\ newSession' = NoSession
             /\ IF ok
                   THEN /\ Install(newSession)
                        /\ Finish(cur, "Ok",
                                  << Call("password_login_successful",
                                          SessionUsername(attempts), cur.secret, tok, 0) >>,
                                  NoFwd)
                   ELSE /\ session' = SessionAfterTokenFailed(session, newSession)
                        /\ Finish(cur, TokenFetchError("MercuryError"), << >>, NoFwd)
                        /\ UNCHANGED << player, mixer, bridges >>
  /\ UNCHANGED << settings, queue, closed, sent, started, attempts,
                  emitted, delivered >>

TokenOk == \E tok \in AccessTokens : TokenReturns(TRUE, tok)
TokenErr == TokenReturns(FALSE, "")

\* ReloadSettings: self.session after the handler has rebuilt the player
ReloadSession(s) == NoSession

HandleReloadSettings ==
  /\ Ready("ReloadSettings")
  /\ \E st \in SettingsSet :
       LET c == NextCommand(queue) IN
       /\ Take(c)
       /\ settings' = st
       /\ IF session = NoSession
             THEN /\ Finish(c, "PlayerNotReady", << >>, NoFwd)
                  /\ UNCHANGED << session, player, mixer, bridges >>
             ELSE /\ mixer' = MixerAfterCreate(mixer, player)
                  /\ player' = NewPlayer(session, st, mixer, player, bridges)
                  /\ bridges' = SpawnBridge(DropPlayer(bridges, player), player')
                  /\ session' = ReloadSession(session)
                  /\ Finish(c, "Ok", << >>, NoFwd)
  /\ UNCHANGED << closed, sent, newSession, emitted, delivered >>

\* the channel is closed and empty: for_each ends, start returns Ok(()) and drops self
Terminate ==
  /\ pc = "idle"
  /\ queue = << >>
  /\ closed
  /\ pc' = "stopped"
  /\ session' = NoSession
  /\ player' = NoPlayer
  /\ mixer' = NoMixer
  /\ bridges' = DropPlayer(bridges, player)
  /\ UNCHANGED << settings, queue, closed, sent, started, cur, portIdx, attempts,
                  newSession, last, emitted, delivered >>

(* ---------------- the playback engine and the event bridges ---------------- *)

\* the live Player's engine thread emits an event of the set E into its channel
Emit(E) ==
  /\ player # NoPlayer
  /\ emitted < MaxEvents
  /\ \E e \in E :
       bridges' = {IF b.player = player.id
                      THEN [b EXCEPT !.chan = Append(@, [kind |-> e.kind,
                                                         position_ms |-> e.position_ms,
                                                         n |-> emitted + 1])]
                      ELSE b : b \in bridges}
  /\ emitted' = emitted + 1
  /\ UNCHANGED << settings, session, player, mixer, queue, closed, sent, started, pc, cur,
                  portIdx, attempts, newSession, last, delivered >>

PlayerEmit == Emit(PlayerEvent)

\* the engine reports playback positions only
PlayerEmitPlaying == Emit({e \in PlayerEvent : e.kind = "Playing"})

\* the bridges are local tasks of the actor's thread: they run while the actor is suspended
ActorSuspended == pc \in {"connect", "token", "stopped"} \/ (pc = "idle" /\ queue = << >>)

\* (mutant) the channel hands out the newest event first
RecvEventNewest(ch) == ch[Len(ch)]

\* the unbounded event channel hands out the oldest event it holds
RecvEvent(ch) == Head(ch)

\* channel.recv() yields Some(event)
BridgeRecv ==
  /\ ActorSuspended
  /\ \E b \in bridges :
       /\ b.chan # << >>
       /\ LET e == RecvEvent(b.chan) IN
            /\ bridges' = (bridges \ {b})
                             \cup {[b EXCEPT !.chan = SelectSeq(@, LAMBDA x : x # e)]}
            /\ delivered' = [player |-> b.player, event |-> e, calls |-> BridgeCalls(e),
                             current |-> player.id]
  /\ UNCHANGED << settings, session, player, mixer, queue, closed, sent, started, pc, cur,
                  portIdx, attempts, newSession, last, emitted >>

\* channel.recv() yields None: the task ends and is gone
BridgeEnd ==
  /\ ActorSuspended
  /\ \E b \in bridges :
       /\ b.chan = << >>
       /\ ~b.open
       /\ bridges' = bridges \ {b}
  /\ UNCHANGED << settings, session, player, mixer, queue, closed, sent, started, pc, cur,
                  portIdx, attempts, newSession, last, emitted, delivered >>

\* the commands that create, replace or discard a Player
BridgeCommand == {c \in Command : c.type \in {"TokenLogin", "ReloadSettings", "Logout"}}

\* the steps of create_session and of the token fetch
Await ==
  \/ ConnectOk
  \/ ConnectIoError
  \/ ConnectAuthError
  \/ TokenOk
  \/ TokenErr

\* every command, with an engine that emits no event (no step of the actor reads the
\* event channels, which only the engine and the bridges touch)
NextActor ==
  \/ \E c \in Command : Send(c)
  \/ Close
  \/ HandleSetVolume
  \/ HandleResume
  \/ HandlePause
  \/ HandleStop
  \/ HandleSeek
  \/ HandleLoad
  \/ HandleRefreshToken
  \/ HandleLogout
  \/ HandlePasswordLogin
  \/ HandleTokenLogin
  \/ HandleReloadSettings
  \/ Await
  \/ Terminate
  \/ BridgeEnd

\* the commands of BridgeCommand on a channel that stays open, with sessions that are
\* established or rejected at the first attempt, the engine's events and the bridges
NextBridge ==
  \/ \E c \in BridgeCommand : Send(c)
  \/ HandleLogout
  \/ HandleTokenLogin
  \/ HandleReloadSettings
  \/ ConnectOk
  \/ ConnectAuthError
  \/ PlayerEmit
  \/ BridgeRecv
  \/ BridgeEnd

\* as NextBridge, with an engine that reports positions only
NextDrain ==
  \/ \E c \in BridgeCommand : Send(c)
  \/ HandleLogout
  \/ HandleTokenLogin
  \/ HandleReloadSettings
  \/ ConnectOk
  \/ ConnectAuthError
  \/ PlayerEmitPlaying
  \/ BridgeRecv
  \/ BridgeEnd

Next ==
  \/ \E c \in Command : Send(c)
  \/ Close
  \/ HandleSetVolume
  \/ HandleResume
  \/ HandlePause
  \/ HandleStop
  \/ HandleSeek
  \/ HandleLoad
  \/ HandleRefreshToken
  \/ HandleLogout
  \/ HandlePasswordLogin
  \/ HandleTokenLogin
  \/ HandleReloadSettings
  \/ ConnectOk
  \/ ConnectIoError
  \/ ConnectAuthError
  \/ TokenOk
  \/ TokenErr
  \/ Terminate
  \/ PlayerEmit
  \/ BridgeRecv
  \/ BridgeEnd

Spec == Init /\ [][Next]_vars

SpecActor == Init /\ [][NextActor]_vars

SpecBridge == Init /\ [][NextBridge]_vars

\* the steps of the actor's own task: a handler starts, an awaited call returns, the loop ends
ActorStep ==
  \/ HandleSetVolume
  \/ HandleResume
  \/ HandlePause
  \/ HandleStop
  \/ HandleSeek
  \/ HandleLoad
  \/ HandleRefreshToken
  \/ HandleLogout
  \/ HandlePasswordLogin
  \/ HandleTokenLogin
  \/ HandleReloadSettings
  \/ Await
  \/ Terminate

\* the executor keeps polling the actor's task and the bridge tasks
SpecDrain ==
  Init /\ [][NextDrain]_vars /\ WF_vars(ActorStep) /\ WF_vars(BridgeRecv) /\ WF_vars(BridgeEnd)

\* commands that between them await both external calls and fail in all three ways
ShutdownCommand == {c \in Command : c.type \in {"PasswordLogin", "RefreshToken", "PlayerStop"}}

NextShutdown ==
  \/ \E c \in ShutdownCommand : Send(c)
  \/ Close
  \/ HandleStop
  \/ HandleRefreshToken
  \/ HandlePasswordLogin
  \/ Await
  \/ Terminate
  \/ BridgeEnd

\* the executor keeps polling the actor's task, and every external call returns
SpecShutdown == Init /\ [][NextShutdown]_vars /\ WF_vars(ActorStep)


(* ======================================================================= *)
(* Properties                                                              *)
(* ======================================================================= *)

LoginCmds == {"PasswordLogin", "TokenLogin"}
SessionCmds == {"RefreshToken", "Logout", "ReloadSettings"}
PlayerCmds == {"PlayerResume", "PlayerPause", "PlayerStop", "PlayerSeek", "PlayerLoad"}
Suspended == pc \in {"connect", "token"}

\* this step takes a command from the channel (its handler starts)
Starts == started' # started
\* this step ends the handling of a command (handle has returned and start has reported)
Completes == pc' = "idle" /\ (Suspended \/ Starts)
\* the command this step starts lacks the session or player it requires
LacksResource ==
  /\ pc = "idle" /\ queue # << >> /\ Starts
  /\ \/ Head(queue).type \in SessionCmds /\ session = NoSession
     \/ Head(queue).type \in PlayerCmds /\ player = NoPlayer
\* this step is the end of a login that succeeded
LoginSucceeds == Suspended /\ pc' = "idle" /\ cur.type \in LoginCmds /\ last'.result = "Ok"

\* C1: in every reachable state the Actor holds at most one Session and one Player
\* (each is one optional field), and a Player is held only together with the Session
\* it was created against.
C1_PlayerHasItsSession ==
  player # NoPlayer => (session # NoSession /\ player.session = session.id)

\* C2: a command whose required resource is absent (no session for RefreshToken, Logout,
\* ReloadSettings; no player for Resume, Pause, Stop, Seek, Load) yields PlayerNotReady,
\* leaves settings, session, player and mixer unchanged and spawns no Event Bridge.
C2_AbsentResourceLeavesState ==
  [][LacksResource =>
       /\ last'.cmd = Head(queue)
       /\ last'.result = "PlayerNotReady"
       /\ UNCHANGED actorState
       /\ bridges' = bridges]_vars

\* C3: a ReloadSettings executed while a session is held rebuilds the player against that
\* session and leaves the Actor holding the same session, so that a following
\* session-requiring command is not refused.
C3_ReloadKeepsSession ==
  [][(pc = "idle" /\ queue # << >> /\ Starts /\ Head(queue).type = "ReloadSettings"
        /\ session # NoSession) =>
       /\ last'.result = "Ok"
       /\ player' # NoPlayer /\ player'.session = session.id
       /\ session' = session]_vars

\* C4: commands are handled in the order they were sent and one at a time: while a handler
\* is suspended at session connect or token fetch no command is taken from the channel,
\* and a command is taken only when the previous one has completed and been reported.
C4_InOrderOneAtATime ==
  [][/\ Suspended => (started' = started /\ cur.seq = started[Len(started)]
                      /\ \A i \in 1..Len(queue) : queue'[i] = queue[i])
     /\ Starts =>
          /\ pc = "idle"
          /\ started' = Append(started, Len(started) + 1)
          /\ Len(started) > 0 => last.cmd.seq = Len(started)
          /\ \A i \in 1..Len(queue') : queue'[i].seq = Len(started') + i
          /\ IF pc' = "idle" THEN last'.cmd.seq = Len(started')
                             ELSE cur'.seq = Len(started')]_vars

C4_Witness == pc = "token" /\ Len(queue) = 2 /\ cur.type = "PasswordLogin"

\* a PlayerLoad is started right after a login that succeeded
LoadAfterLogin ==
  /\ pc = "idle" /\ queue # << >> /\ Starts /\ Head(queue).type = "PlayerLoad"
  /\ last.cmd.type \in LoginCmds /\ last.result = "Ok"
  /\ last.cmd.seq + 1 = Head(queue).seq

\* C5 (as claimed): a PlayerLoad that follows a successful login is executed on the Player
\* that login installed and is not refused; for TokenLogin the Delegate has by then
\* received token_login_successful with the username and the token of the command.
C5_LoadAfterLogin_Original ==
  [][LoadAfterLogin =>
       /\ player # NoPlayer /\ player.session = session.id
       /\ last'.result = "Ok" /\ last'.calls = << >>
       /\ last'.fwd = [op |-> "load", target |-> player.id, arg |-> Head(queue).num]
       /\ last.cmd.type = "TokenLogin" =>
            last.calls = << Call("token_login_successful",
                                 last.cmd.username, last.cmd.secret, "", 0) >>]_vars

\* C5 (amended): as above, but token_login_successful carries the username reported by the
\* newly established session (new_session.username()) and the token of the command.
C5_LoadAfterLogin ==
  [][LoadAfterLogin =>
       /\ player # NoPlayer /\ player.session = session.id
       /\ last'.result = "Ok" /\ last'.calls = << >>
       /\ last'.fwd = [op |-> "load", target |-> player.id, arg |-> Head(queue).num]
       /\ last.cmd.type = "TokenLogin" =>
            last.calls = << Call("token_login_successful",
                                 attempts[Len(attempts)].username, last.cmd.secret, "", 0) >>]_vars

C5_Witness ==
  /\ last.cmd.type = "PlayerLoad" /\ last.result = "Ok" /\ last.cmd.seq = 2
  /\ player # NoPlayer /\ last.fwd.target = player.id

\* C6: every command whose handler fails causes exactly one report_error on the Delegate,
\* with one of the three kinds; every command that succeeds causes none; in both cases
\* the run loop is back waiting on the channel, and it stops only when the channel is
\* closed and empty.
C6_OneReportPerFailure ==
  [][/\ Completes =>
          /\ last'.result \in SpotifyError \cup {"Ok"}
          /\ SelectSeq(last'.calls, LAMBDA x : x.call = "report_error")
               = IF last'.result = "Ok" THEN << >>
                 ELSE << Call("report_error", last'.result, "", "", 0) >>
          /\ last'.result # "Ok" => Len(last'.calls) = 1
          /\ pc' = "idle" /\ cur' = NoCmd
     /\ ~Completes => last' = last
     /\ pc' = "stopped" => (closed /\ queue = << >>)]_vars

C6_Witness ==
  /\ last.result = "PlayerNotReady" /\ last.cmd.seq = 3
  /\ last.calls = << Call("report_error", "PlayerNotReady", "", "", 0) >>
  /\ pc = "idle"

\* the token fetch of a PasswordLogin fails in this step
PasswordTokenFails ==
  pc = "token" /\ cur.type = "PasswordLogin" /\ pc' = "idle" /\ last'.result = "TokenFailed"

C8_LogoutClears ==
  [][/\ (pc = "idle" /\ queue # << >> /\ Starts /\ Head(queue).type = "Logout"
           /\ session # NoSession) =>
          /\ last'.result = "Ok"
          /\ last'.fwd = [op |-> "shutdown", target |-> session.id, arg |-> 0]
          /\ session' = NoSession /\ player' = NoPlayer
          /\ settings' = settings /\ mixer' = mixer
     /\ (session = NoSession /\ player = NoPlayer /\ ~LoginSucceeds) =>
          /\ session' = NoSession /\ player' = NoPlayer
          /\ (Starts /\ Head(queue).type \in SessionCmds \cup PlayerCmds) =>
               last'.result = "PlayerNotReady"]_vars

C8_Witness ==
  /\ mixer # NoMixer /\ session = NoSession /\ player = NoPlayer /\ pc = "idle"
  /\ last.cmd.type = "PlayerResume" /\ last.result = "PlayerNotReady"

\* C9: with no fixed endpoint the candidates are attempted in the order default, 80, 443,
\* 4070; every attempt before the last one failed with an I/O error, and when an attempt
\* succeeds the login goes on with that session and no further candidate is attempted.
C9_FallbackOrder ==
  (~settings.ap_port.some /\ attempts # << >>) =>
    /\ Len(attempts) <= Len(KNOWN_AP_PORTS)
    /\ \A i \in 1..Len(attempts) :
         /\ attempts[i].port = KNOWN_AP_PORTS[i]
         /\ i < Len(attempts) => attempts[i].outcome = "IoError"
    /\ attempts[Len(attempts)].outcome = "Ok" =>
         \/ pc = "token" /\ newSession # NoSession
         \/ /\ ~Suspended
            /\ last.cmd.type \in LoginCmds /\ last.result \in {"Ok", "TokenFailed"}
            /\ (last.result = "Ok" /\ pc = "idle") => session # NoSession

C9_Witness ==
  /\ ~settings.ap_port.some /\ Len(attempts) = 3
  /\ attempts[1].outcome = "IoError" /\ attempts[2].outcome = "IoError"
  /\ attempts[3] = [port |-> SomePort(443), outcome |-> "Ok", username |-> "alice"]
  /\ pc = "idle" /\ last.result = "Ok" /\ session # NoSession

\* C10: with no fixed endpoint, an authentication failure on any candidate ends the session
\* establishment at once with LoginFailed: it is the last attempt made.
C10_AuthFailureStops ==
  ~settings.ap_port.some =>
    \A i \in 1..Len(attempts) :
      attempts[i].outcome = "AuthenticationError" =>
        /\ i = Len(attempts)
        /\ ~Suspended
        /\ last.cmd.type \in LoginCmds
        /\ last.result = "LoginFailed"
        /\ last.calls = << Call("report_error", "LoginFailed", "", "", 0) >>

C10_Witness ==
  /\ ~settings.ap_port.some /\ Len(attempts) = 2
  /\ attempts[1].outcome = "IoError" /\ attempts[2].outcome = "AuthenticationError"
  /\ last.result = "LoginFailed"

\* the latest Session::connect attempt of the command in hand
LastAttempt == attempts[Len(attempts)]
\* a login has completed and its attempts are still on record
LoginDone == ~Suspended /\ last.cmd.type \in LoginCmds /\ attempts # << >>

\* C11: the session establisher fails only with LoginFailed and in bounded attempts: with a
\* fixed endpoint it makes exactly one attempt, to that endpoint, and any failure gives
\* LoginFailed; with no fixed endpoint, four I/O failures give LoginFailed after exactly
\* four attempts, and the Delegate receives the one report_error(LoginFailed) only.
C11_EstablisherFailsBounded ==
  /\ Len(attempts) <= Len(KNOWN_AP_PORTS)
  /\ (pc = "connect" /\ attempts # << >>) =>
        (~settings.ap_port.some /\ LastAttempt.outcome = "IoError")
  /\ settings.ap_port.some =>
        /\ Len(attempts) <= 1
        /\ \A i \in 1..Len(attempts) : attempts[i].port = settings.ap_port
  /\ (LoginDone /\ LastAttempt.outcome # "Ok") =>
        /\ last.result = "LoginFailed"
        /\ last.calls = << Call("report_error", "LoginFailed", "", "", 0) >>
        /\ (~settings.ap_port.some /\ LastAttempt.outcome = "IoError") =>
             /\ Len(attempts) = Len(KNOWN_AP_PORTS)
             /\ \A i \in 1..Len(attempts) : attempts[i].outcome = "IoError"
  /\ (LoginDone /\ last.result = "LoginFailed") => LastAttempt.outcome # "Ok"

C11_Witness ==
  /\ ~settings.ap_port.some /\ Len(attempts) = 4 /\ pc = "idle"
  /\ \A i \in 1..4 : attempts[i].outcome = "IoError"
  /\ last.cmd.type = "TokenLogin" /\ last.result = "LoginFailed"

\* this step takes a command of type t from the channel
StartsCmd(t) == pc = "idle" /\ queue # << >> /\ Starts /\ Head(queue).type = t

\* C12: SetVolume never fails: it returns Ok, calls no Delegate method and spawns nothing;
\* while no mixer exists it leaves the Actor state unchanged, and once a mixer exists
\* (also after Logout) it changes nothing but the volume of that mixer.
C12_SetVolumeNeverFails ==
  [][StartsCmd("PlayerSetVolume") =>
       /\ pc' = "idle"
       /\ last'.cmd = Head(queue) /\ last'.result = "Ok"
       /\ last'.calls = << >> /\ last'.fwd = NoFwd
       /\ UNCHANGED << settings, session, player >>
       /\ bridges' = bridges
       /\ mixer = NoMixer => mixer' = NoMixer
       /\ mixer # NoMixer => (mixer' # NoMixer /\ mixer'.id = mixer.id)]_vars

C12_Witness ==
  /\ last.cmd.type = "PlayerSetVolume" /\ last.cmd.num = 0 /\ last.cmd.seq = 3
  /\ session = NoSession /\ player = NoPlayer
  /\ mixer # NoMixer /\ mixer.volume = 0

\* the token fetch of a RefreshToken returns in this step
RefreshReturns == pc = "token" /\ cur.type = "RefreshToken" /\ pc' = "idle"

\* C13: a RefreshToken executed while a session is held leaves settings, session, player
\* and mixer unchanged in both outcomes: a successful fetch gives the Delegate exactly one
\* refresh_successful with the token and no error, a failed fetch exactly one
\* report_error(TokenFailed) and no refresh_successful.
C13_RefreshLeavesState ==
  [][/\ (StartsCmd("RefreshToken") /\ session # NoSession) =>
          /\ pc' = "token" /\ cur' = Head(queue)
          /\ UNCHANGED actorState /\ bridges' = bridges /\ last' = last
     /\ RefreshReturns =>
          /\ session # NoSession
          /\ UNCHANGED actorState /\ bridges' = bridges
          /\ last'.cmd = cur
          /\ \/ /\ last'.result = "Ok"
                /\ \E tok \in AccessTokens :
                     last'.calls = << Call("refresh_successful", tok, "", "", 0) >>
             \/ /\ last'.result = "TokenFailed"
                /\ last'.calls = << Call("report_error", "TokenFailed", "", "", 0) >>]_vars

C13_Witness ==
  /\ last.cmd.type = "RefreshToken" /\ last.result = "TokenFailed" /\ pc = "idle"
  /\ session # NoSession /\ player # NoPlayer

\* C14: once the channel is closed, and provided every awaited external call returns, the
\* Actor eventually has handled every command that was sent and its run loop has ended,
\* whatever the handled commands returned.
C14_CloseTerminates ==
  closed ~> (pc = "stopped" /\ queue = << >> /\ Len(started) = sent)

C14_Witness ==
  /\ pc = "stopped" /\ closed /\ queue = << >> /\ Len(started) = 3 /\ sent = 3
  /\ last.result = "LoginFailed"

\* C15: SetVolume(1.0) sets the mixer to MAX_VOLUME, the u16 maximum, SetVolume(0.0)
\* sets it to 0, and the mixer created on first Player creation starts at MAX_VOLUME.
C15_VolumeEndpoints ==
  [][/\ (StartsCmd("PlayerSetVolume") /\ mixer # NoMixer) =>
          /\ Head(queue).num = 100 => mixer'.volume = MAX_VOLUME
          /\ Head(queue).num = 0 => mixer'.volume = 0
     /\ (mixer = NoMixer /\ mixer' # NoMixer) => mixer'.volume = MAX_VOLUME
     /\ MAX_VOLUME = 2 ^ 16 - 1]_vars

C15_Witness ==
  /\ last.cmd.type = "PlayerSetVolume" /\ last.cmd.num = 0 /\ last.cmd.seq = 2
  /\ player # NoPlayer /\ mixer # NoMixer /\ mixer.volume = 0

\* C16: the Mixer is created at most once in the Actor's lifetime, by the first Player
\* creation, and the Actor then holds that same Mixer in every later state (ReloadSettings,
\* re-login and Logout neither recreate nor remove it); a Player present implies a Mixer
\* present, and every Player is bound to it.
C16_OneMixer ==
  [][/\ (mixer # NoMixer /\ pc' # "stopped") => (mixer' # NoMixer /\ mixer'.id = mixer.id)
     /\ (mixer = NoMixer /\ mixer' # NoMixer) => (player = NoPlayer /\ player' # NoPlayer)
     /\ mixer = NoMixer => player = NoPlayer
     /\ player' # NoPlayer => (mixer' # NoMixer /\ player'.mixer = mixer'.id)]_vars

C16_Witness ==
  /\ last.cmd.type \in LoginCmds \cup {"ReloadSettings"} /\ last.result = "Ok"
  /\ last.cmd.seq = 3 /\ pc = "idle"
  /\ player # NoPlayer /\ player.mixer = mixer.id /\ mixer.volume = 0

\* a login fails at session establishment in this step
LoginFailsHere == pc = "connect" /\ pc' = "idle" /\ last'.result = "LoginFailed"

\* C20: a PasswordLogin or TokenLogin that fails at session establishment while the Actor
\* holds a session and a player from an earlier login leaves settings, session, player and
\* mixer unchanged, spawns no Event Bridge and makes no Delegate call but the one
\* report_error(LoginFailed).
C20_FailedLoginKeepsSession ==
  [][(LoginFailsHere /\ session # NoSession /\ player # NoPlayer) =>
       /\ last'.cmd = cur /\ cur.type \in LoginCmds
       /\ UNCHANGED actorState
       /\ bridges' = bridges
       /\ last'.calls = << Call("report_error", "LoginFailed", "", "", 0) >>]_vars

C20_Witness ==
  /\ last.cmd.type \in LoginCmds /\ last.result = "LoginFailed" /\ last.cmd.seq = 2
  /\ session # NoSession /\ player # NoPlayer /\ player.session = session.id
  /\ pc = "idle"

\* a bridge whose Player is gone is still there
Stale == \E b \in bridges : ~b.open
\* this step creates a Player
CreatesPlayer == player' # NoPlayer /\ player'.id # player.id
\* the bridges of this step's next state that were not there before
SpawnedHere == {b \in bridges' : b.player \notin {x.player : x \in bridges}}

\* C17: every Player creation spawns exactly one Event Bridge and nothing else does; when
\* a Player is replaced or discarded its event stream closes and receives no more events;
\* its bridge eventually drains what was emitted and ends, and only running bridges
\* deliver; with no stale bridge left at most one bridge is running.
C17_BridgePerPlayer ==
  /\ [][/\ SpawnedHere = IF CreatesPlayer
                            THEN {[player |-> player'.id, chan |-> << >>, open |-> TRUE]}
                            ELSE {}
        /\ (player # NoPlayer /\ player'.id # player.id) =>
             \A b \in bridges' : b.player = player.id => ~b.open
        /\ \A b \in bridges : ~b.open =>
             \A x \in bridges' : x.player = b.player =>
               (~x.open /\ Len(x.chan) <= Len(b.chan))
        /\ delivered' # delivered =>
             \E b \in bridges : b.player = delivered'.player /\ b.chan # << >>]_vars
  /\ [](/\ \A b \in bridges : b.open <=> (player # NoPlayer /\ b.player = player.id)
        /\ \A b, x \in bridges : b.player = x.player => b = x
        /\ player # NoPlayer => \E b \in bridges : b.player = player.id
        /\ ~Stale => Cardinality(bridges) <= 1)
  /\ (Stale ~> ~Stale)

C17_Witness ==
  /\ Cardinality(bridges) = 2 /\ Stale /\ player # NoPlayer
  /\ \E b \in bridges : ~b.open /\ Len(b.chan) = 2

\* a bridge takes an event from its channel in this step
Delivers == delivered' # delivered

\* C18: a bridge hands the events of its Player to the Delegate in the order the Player
\* emitted them; a delivery touches neither the command handler nor any other bridge, and
\* it can happen while a handler is suspended or after the Player has been replaced.
C18_PerPlayerFifo ==
  [][/\ \A b \in bridges : \A i, j \in 1..Len(b.chan) : i < j => b.chan[i].n < b.chan[j].n
     /\ Delivers =>
          /\ \E b \in bridges :
               /\ b.player = delivered'.player
               /\ b.chan # << >>
               /\ delivered'.event = b.chan[1]
               /\ \A i \in 2..Len(b.chan) : delivered'.event.n < b.chan[i].n
               /\ bridges' = (bridges \ {b}) \cup {[b EXCEPT !.chan = Tail(b.chan)]}
          /\ delivered'.player = delivered.player => delivered.event.n < delivered'.event.n
          /\ UNCHANGED << actorState, pc, cur, queue, started, last >>]_vars

C18_Witness ==
  /\ delivered.event.n = 2
  /\ delivered.current # 0 /\ delivered.current # delivered.player
  /\ player # NoPlayer /\ player.id = delivered.current

\* the Delegate calls the bridge makes for an event, read off the match arms
ExpectedBridgeCalls(e) ==
  CASE e.kind = "EndOfTrack" -> << Call("end_of_track_reached", "", "", "", 0) >>
    [] e.kind = "Stopped" -> << Call("end_of_track_reached", "", "", "", 0) >>
    [] e.kind = "Playing" -> << Call("notify_playback_state", "", "", "", e.position_ms) >>
    [] OTHER -> << >>

\* C19: for every player event the bridge makes at most one Delegate call and changes no
\* Actor state: EndOfTrack and Stopped give end_of_track_reached(), Playing(position)
\* gives notify_playback_state(position), any other kind gives no call; a bridge never
\* calls report_error or a login or refresh success method.
C19_BridgeMapping ==
  [][Delivers =>
       /\ delivered'.event.kind \in {e.kind : e \in PlayerEvent}
       /\ delivered'.calls = ExpectedBridgeCalls(delivered'.event)
       /\ Len(delivered'.calls) <= 1
       /\ \A i \in 1..Len(delivered'.calls) :
            delivered'.calls[i].call \in {"end_of_track_reached", "notify_playback_state"}
       /\ UNCHANGED actorState
       /\ last' = last]_vars

C19_Witness ==
  /\ delivered.event.kind = "Stopped"
  /\ delivered.calls = << Call("end_of_track_reached", "", "", "", 0) >>
  /\ delivered.player # 0

====
